---- MODULE Spec2Model ----
(***************************************************************************)
(* A model of InterpretCommand (src/commands/interpreter/interpreter.py),  *)
(* the stepped interpreter that turns a text program into robot commands,  *)
(* together with the conditions of src/commands/interpreter/conditions and *)
(* the two commands of src/commands the engine is wired with.              *)
(*                                                                         *)
(* Text.  An instruction string is modelled by its token sequence, the     *)
(* value of str.split(" "): "time if angle > 10" is                        *)
(* <<"time","if","angle",">","10">>, and a leading or trailing blank is an *)
(* empty token "" at that end.  No token holds a blank.                    *)
(*                                                                         *)
(* Host.  The engine is a commands2 command: the host scheduler schedules  *)
(* it, calls execute() once per frame while it is scheduled, and calls     *)
(* end().  isScheduled() is the variable scheduled.                        *)
(***************************************************************************)
EXTENDS Integers, Sequences, FiniteSets, TLC

VARIABLES
    instruction_set,    \* self.instruction_set : keyword -> command class
    condition_set,      \* self.condition_set   : keyword -> condition class
    instructions,       \* self.instructions    : the loaded program
    jit_compiled,       \* self.jit_compiled
    step,               \* self.step            : the cursor, -1 when idle
    current_command,    \* self.current_command : a CompiledInstruction or None
    command_sequence,   \* self.command_sequence: the cache of compiled steps
    scheduled,          \* isScheduled() of the engine in the host scheduler
    elapsed,            \* current command's timer has reached its duration
    lastOp,             \* the last call made on the engine and what it did
    hist,               \* history of the loaded program (observation only)
    dispatcher          \* the last dispatcher constructed, and how it went

vars == <<instruction_set, condition_set, instructions, jit_compiled, step,
          current_command, command_sequence, scheduled, elapsed, lastOp, hist,
          dispatcher>>

engine == <<instructions, command_sequence, jit_compiled, step, current_command>>

-----------------------------------------------------------------------------
(* Bounds of the model *)

\* longest program the host loads
MaxProg == 2

\* the host stops ticking an engine whose cursor has reached MaxStep
MaxStep == 4

\* the sensor values the angle getter can return
AngleValues == {5, 15}

\* the script the host takes its programs from: a program is a selection of
\* at most MaxProg of its instructions, in script order
Script ==
    << <<"time", "if", "false">>,
       <<"wait", "for", "2", "seconds", "until", "angle", ">", "10">>,
       <<"time", "if", "nosuch">>,
       <<"time">>,
       <<"wait", "for", "x", "seconds">>,
       <<"bogus">> >>

\* the pieces of a program text, before trimming
RawScript == << <<"">>, <<"", "time", "">> >>

\* the selections of at most n entries of script, in order
RECURSIVE Selections(_, _)
Selections(script, n) ==
    IF n = 0 \/ Len(script) = 0 THEN {<<>>}
    ELSE Selections(Tail(script), n)
         \cup { <<Head(script)>> \o q : q \in Selections(Tail(script), n - 1) }

\* programs the host also loads: a step that is skipped, one whose condition
\* is not registered, and a plain one; an instruction with two modifiers; a
\* plain step before a skipped one; and a modifier with an empty clause
\* ("time if " with its trailing blank)
Scenarios ==
    { <<Script[1], Script[3], Script[4]>>,
      << <<"time", "unless", "false", "if", "true">> >>,
      <<Script[4], Script[1]>>,
      << <<"time", "if", "">> >> }

Programs == Selections(Script, MaxProg) \cup Scenarios

RawPrograms == Selections(RawScript, MaxProg)

-----------------------------------------------------------------------------
(* Values *)

None == [none |-> TRUE]

\* float(tok): the tokens Python's float() accepts, with their values
FloatTokens == {"0", "1", "2", "5", "10", "15"}

FloatVal(tok) ==
    CASE tok = "0" -> 0 [] tok = "1" -> 1 [] tok = "2" -> 2
      [] tok = "5" -> 5 [] tok = "10" -> 10 [] tok = "15" -> 15

\* classes deriving from ModularCommand.  DriveTimeCommand names its base
\* interpreter.InstructionCommand, which the package does not define; with its
\* validate_arguments / parse_arguments pair it is taken to be a ModularCommand.
ModularClasses == {"DriveTimeCommand", "DriveTimeReverseCommand", "DriveCommand"}

\* what the host registers at startup, keyword -> class: `time` as robot.py
\* does, and `wait` for the duration command of commands/drivetime.py
CommandWiring == [time |-> "InstantCommand", wait |-> "DriveTimeCommand"]

ConditionWiring == [angle |-> "NumericComparisonCondition"]

Ev(name, idx, id) == [ev |-> name, idx |-> idx, id |-> id]

-----------------------------------------------------------------------------
(* Splitting an instruction at a modifier keyword *)

\* " kw " in inst
HasKeyword(inst, kw) == \E i \in 2..(Len(inst) - 1) : inst[i] = kw

KeywordPos(inst, kw) ==
    CHOOSE i \in 2..(Len(inst) - 1) :
        inst[i] = kw /\ \A j \in 2..(i - 1) : inst[j] # kw

\* inst.split(" kw ", maxsplit=1)[0], which is also inst.split(" kw ")[0]
SplitBefore(inst, kw) == SubSeq(inst, 1, KeywordPos(inst, kw) - 1)

\* inst.split(" kw ", maxsplit=1)[1]
SplitAfter(inst, kw) == SubSeq(inst, KeywordPos(inst, kw) + 1, Len(inst))

\* the if / elif chain of check_instruction and _compile_instruction
Modifier(inst) ==
    IF HasKeyword(inst, "if") THEN "if"
    ELSE IF HasKeyword(inst, "unless") THEN "unless"
    ELSE IF HasKeyword(inst, "while") THEN "while"
    ELSE IF HasKeyword(inst, "until") THEN "until"
    ELSE "none"

-----------------------------------------------------------------------------
(* Commands *)

DriveCommand_validate_arguments(args) ==
    /\ Len(args) >= 1 /\ Len(args) <= 3
    /\ args[1] \in FloatTokens
    /\ (Len(args) = 2 => args[2] \in FloatTokens)
    /\ (Len(args) = 3 => args[3] \in FloatTokens)

DriveTimeCommand_validate_arguments(args) ==
    /\ Len(args) = 3 \/ Len(args) = 5
    /\ args[1] = "for"
    /\ args[2] \in FloatTokens
    /\ args[3] = "seconds" \/ args[3] = "second"
    /\ (Len(args) = 5 =>
           /\ args[4] = "at" \/ args[4] = "@"
           /\ args[5] \in FloatTokens)

validate_arguments(klass, args) ==
    CASE klass = "DriveCommand" -> DriveCommand_validate_arguments(args)
      [] klass \in {"DriveTimeCommand", "DriveTimeReverseCommand"} ->
             DriveTimeCommand_validate_arguments(args)
      [] OTHER -> TRUE

\* parse_arguments: [err, values]
DriveCommand_parse_arguments(args) ==
    IF \A i \in 1..Len(args) : args[i] \in FloatTokens
    THEN [err |-> "none", values |-> [i \in 1..Len(args) |-> FloatVal(args[i])]]
    ELSE [err |-> "ValueError", values |-> <<>>]

DriveTimeCommand_parse_arguments(args) ==
    IF Len(args) = 3
    THEN IF args[2] \in FloatTokens
         THEN [err |-> "none", values |-> <<FloatVal(args[2])>>]
         ELSE [err |-> "ValueError", values |-> <<>>]
    ELSE IF Len(args) < 2 THEN [err |-> "IndexError", values |-> <<>>]
    ELSE IF args[2] \notin FloatTokens THEN [err |-> "ValueError", values |-> <<>>]
    ELSE IF Len(args) < 5 THEN [err |-> "IndexError", values |-> <<>>]
    ELSE IF args[5] \notin FloatTokens THEN [err |-> "ValueError", values |-> <<>>]
    ELSE [err |-> "none", values |-> <<FloatVal(args[2]), FloatVal(args[5])>>]

parse_arguments(klass, args) ==
    CASE klass = "DriveCommand" -> DriveCommand_parse_arguments(args)
      [] klass \in {"DriveTimeCommand", "DriveTimeReverseCommand"} ->
             DriveTimeCommand_parse_arguments(args)
      [] OTHER -> [err |-> "none", values |-> args]

\* command.isFinished() of a compiled step; el is its timer having run out
CommandIsFinished(cmd, el) ==
    CASE cmd.command.klass = "InstantCommand" -> TRUE
      [] cmd.command.klass = "DriveTimeCommand" -> el
      [] OTHER -> FALSE

-----------------------------------------------------------------------------
(* Conditions *)

\* klass.test(input, *tokens): [err, res]
BooleanCondition_test(input, tokens) ==
    IF Len(tokens) # 0
    THEN [err |-> "CommandSyntaxError", res |-> FALSE]
    ELSE [err |-> "none", res |-> input]

NumericComparisonCondition_test(input, tokens) ==
    IF Len(tokens) < 2 THEN [err |-> "IndexError", res |-> FALSE]
    ELSE IF tokens[2] \notin FloatTokens THEN [err |-> "ValueError", res |-> FALSE]
    ELSE LET op == tokens[1]
             comparand == FloatVal(tokens[2])
         IN  CASE op = "<" -> [err |-> "none", res |-> input < comparand]
               [] op = ">" -> [err |-> "none", res |-> input > comparand]
               [] op = "<=" -> [err |-> "none", res |-> input <= comparand]
               [] op = ">=" -> [err |-> "none", res |-> input >= comparand]
               [] OTHER -> [err |-> "CommandSyntaxError", res |-> FALSE]

\* angle is the value the getter returns at this call
test(klass, angle, tokens) ==
    CASE klass = "TrueCondition" -> BooleanCondition_test(TRUE, tokens)
      [] klass = "FalseCondition" -> BooleanCondition_test(FALSE, tokens)
      [] OTHER -> NumericComparisonCondition_test(angle, tokens)

\* ConditionBase._result: [err, res]
ResultIgnoringInvert(cond, angle) == test(cond.klass, angle, cond.tokens)

_result(cond, angle) ==
    LET t == test(cond.klass, angle, cond.tokens)
    IN  [err |-> t.err,
         res |-> (t.res /\ ~cond.invert) \/ (~t.res /\ cond.invert)]

-----------------------------------------------------------------------------
(* The instruction compiler *)

\* check_instruction: the exception it raises, or "none"
check_instruction(iset, inst) ==
    LET m == Modifier(inst)
        instruction == IF m = "none" THEN inst ELSE SplitBefore(inst, m)
        key == Head(instruction)
        tokens == Tail(instruction)
    IN  IF key \notin DOMAIN iset THEN "InstructionNotFoundError"
        ELSE IF iset[key] \in ModularClasses /\ ~validate_arguments(iset[key], tokens)
             THEN "CommandSyntaxError"
        ELSE "none"

\* _compile_command: [err, command]
_compile_command(iset, command) ==
    LET key == Head(command)
        tokens == Tail(command)
    IN  IF key \notin DOMAIN iset THEN [err |-> "KeyError", command |-> None]
        ELSE LET klass == iset[key]
                 parsed == IF klass \in ModularClasses
                           THEN parse_arguments(klass, tokens)
                           ELSE [err |-> "none", values |-> tokens]
             IN  IF parsed.err # "none" THEN [err |-> parsed.err, command |-> None]
                 ELSE [err |-> "none",
                       command |-> [klass |-> klass, args |-> parsed.values]]

\* _compile_condition: [err, condition]
_compile_condition(cset, condition, inverted, type) ==
    LET key == Head(condition)
        tokens == Tail(condition)
    IN  IF key \notin DOMAIN cset THEN [err |-> "KeyError", condition |-> None]
        ELSE [err |-> "none",
              condition |-> [klass |-> cset[key], tokens |-> tokens,
                             invert |-> inverted, type |-> type]]

\* _compile_instruction: [err, command, condition]
_compile_instruction(iset, cset, instruction) ==
    LET m == Modifier(instruction)
        inst == IF m = "none" THEN instruction ELSE SplitBefore(instruction, m)
        \* None, or the list *condition left of the split after inst
        condition == [isNone |-> m = "none",
                      list |-> IF m = "none" THEN <<>>
                               ELSE <<SplitAfter(instruction, m)>>]
        inverted == m \in {"unless", "until"}
        condition_type == IF m \in {"while", "until"} THEN "continuous" ELSE "initial"
        cmd == _compile_command(iset, inst)
    IN  IF cmd.err # "none"
        THEN [err |-> cmd.err, command |-> None, condition |-> None]
        ELSE IF ~condition.isNone /\ Len(condition.list) # 0
        THEN IF Len(condition.list) # 0
             THEN LET cond == _compile_condition(cset, condition.list[1], inverted,
                                                 condition_type)
                  IN  [err |-> cond.err, command |-> cmd.command,
                       condition |-> cond.condition]
             ELSE [err |-> "CommandSyntaxError", command |-> None, condition |-> None]
        ELSE [err |-> "none", command |-> cmd.command, condition |-> None]

\* CompiledInstruction.hasCondition
hasCondition(cmd) == cmd.condition # None

-----------------------------------------------------------------------------
(* Loading *)

\* str.strip() of one piece of program text
RECURSIVE StripLeft(_)
StripLeft(t) ==
    IF Len(t) > 1 /\ Head(t) = "" THEN StripLeft(Tail(t)) ELSE t

RECURSIVE StripRight(_)
StripRight(t) ==
    IF Len(t) > 1 /\ t[Len(t)] = "" THEN StripRight(SubSeq(t, 1, Len(t) - 1)) ELSE t

strip(t) == StripRight(StripLeft(t))

\* [i.strip() for i in insts if len(i.strip()) > 0]; <<"">> is the empty string
SplitProgram(pieces) ==
    LET stripped == [i \in 1..Len(pieces) |-> strip(pieces[i])]
    IN  SelectSeq(stripped, LAMBDA t : t # <<"">>)

\* for inst in self.instructions: self.check_instruction(inst)
FirstError(iset, insts) ==
    LET bad == { i \in 1..Len(insts) : check_instruction(iset, insts[i]) # "none" }
    IN  IF bad = {} THEN "none"
        ELSE check_instruction(iset, insts[CHOOSE i \in bad : \A j \in bad : i <= j])

\* compile(): it empties the cache, then calls
\* self._compile_instruction(self, inst), one argument too many, for the
\* first instruction: [err, command_sequence]
compile(seq, insts) ==
    IF Len(insts) = 0
    THEN [err |-> "none", command_sequence |-> <<>>]
    ELSE [err |-> "TypeError", command_sequence |-> <<>>]

\* the guard of load_program
LoadNeverRefused(sched) == FALSE

LoadRefused(sched) == sched

\* isFinished()
isFinished(s, seq, insts) ==
    IF Len(seq) = Len(insts) THEN s >= Len(seq) ELSE s >= Len(insts)

-----------------------------------------------------------------------------
(* The execution engine *)

\* identities of the compiled steps the engine still refers to
Live(seq, cur) ==
    { seq[i].id : i \in 1..Len(seq) } \cup (IF cur = None THEN {} ELSE {cur.id})

\* the identity of a newly constructed object: one no live object has
NewId(live) ==
    CHOOSE n \in 1..(Cardinality(live) + 1) :
        n \notin live /\ \A m \in 1..(n - 1) : m \in live

\* if self.jit_compiled: self.command_sequence.append(cmd)
StoreStep(seq, cmd, jit) == IF jit THEN Append(seq, cmd) ELSE seq

\* observation: one more compiled step was built for index i (counted to 2)
Built(h, i) ==
    IF h.jitRun
    THEN [h EXCEPT !.built[i] = IF @ < 2 THEN @ + 1 ELSE 2]
    ELSE h

\* The while loop of execute().  st is the loop's state: the cursor, the
\* cache, the events so far and how the loop ended; env holds the registries,
\* the program, the JIT flag, the current step and the value the angle getter
\* returns during the tick.

\* if not cmd.hasCondition() or cmd.condition._result(): [err, res]
Satisfied(cmd, angle) ==
    IF hasCondition(cmd) THEN _result(cmd.condition, angle)
    ELSE [err |-> "none", res |-> TRUE]

\* the test of cmd at the cursor gave r: raise, break with cmd, or step on
Select(st, cmd, r) ==
    IF r.err # "none"
    THEN [st EXCEPT !.outcome = "error", !.err = r.err]
    ELSE IF r.res
    THEN [st EXCEPT !.outcome = "adopt", !.cmd = cmd,
                    !.events = Append(@, Ev("adopt", st.step, cmd.id))]
    ELSE [st EXCEPT !.step = @ + 1,
                    !.events = Append(@, Ev("skip", st.step, cmd.id))]

\* the one call of cmd.condition._result() a visit makes, when cmd has a
\* condition
Tested(st, cmd) ==
    IF hasCondition(cmd)
    THEN [st EXCEPT !.events = Append(@, Ev("test", st.step, cmd.id))]
    ELSE st

Visit(st, env, cmd) == Select(Tested(st, cmd), cmd, Satisfied(cmd, env.angle))

\* cmd was compiled for the cursor: store it under JIT, then test it
Compiled(st, env, cmd) ==
    Visit([st EXCEPT !.cache = StoreStep(@, cmd, env.jit),
                     !.hist = Built(@, st.step + 1),
                     !.events = Append(@, Ev("compile", st.step, cmd.id))],
          env, cmd)

\* c is what _compile_instruction returned or raised for the cursor
Compile1(st, env, c, id) ==
    IF c.err # "none"
    THEN [st EXCEPT !.outcome = "error", !.err = c.err,
                    !.events = Append(@, Ev("compile", st.step, 0))]
    ELSE Compiled(st, env, [id |-> id, command |-> c.command,
                            condition |-> c.condition])

\* one pass of the loop
SearchStep(st, env) ==
    IF isFinished(st.step, st.cache, env.insts)
    THEN [st EXCEPT !.outcome = "finished"]
    ELSE IF Len(st.cache) > st.step
    THEN Visit(st, env, st.cache[st.step + 1])
    ELSE Compile1(st, env,
                  _compile_instruction(env.iset, env.cset, env.insts[st.step + 1]),
                  NewId(Live(st.cache, env.cur)))

\* passes until the loop breaks, returns or raises: at most one pass per
\* instruction, and the pass that finds the end
Search(st, env) ==
    LET pass[n \in 0..(Len(env.insts) + 1)] ==
            IF n = 0 THEN st
            ELSE IF pass[n - 1].outcome # "search" THEN pass[n - 1]
            ELSE SearchStep(pass[n - 1], env)
    IN  pass[Len(env.insts) + 1]

\* the events of a tick that touch a command through its hooks
HookEvents == {"init", "exec", "end", "cancel"}

-----------------------------------------------------------------------------
(* Dispatchers *)

\* the targets DriveDispatcher registers, and the default it asks for
DispatchTargets ==
    [forward |-> "DriveTimeCommand", reverse |-> "DriveTimeReverseCommand"]

DefaultTarget == "DriveCommand"

\* a new instance has no attribute `branches`: the class only annotates it
NoBranches == [has |-> FALSE, map |-> [k \in {} |-> "DriveCommand"]]

\* register_target(key, command): the branches it leaves
register_target(br, key, command) ==
    [has |-> TRUE,
     map |-> [x \in DOMAIN br.map \cup {key} |-> IF x = key THEN command ELSE br.map[x]]]

\* the register_target calls of a subclass constructor, for the keys it has
Registered(keys) ==
    LET first == IF "forward" \in keys
                 THEN register_target(NoBranches, "forward", DispatchTargets["forward"])
                 ELSE NoBranches
    IN  IF "reverse" \in keys
        THEN register_target(first, "reverse", DispatchTargets["reverse"])
        ELSE first

\* self.register_default(command, ...): DispatcherBase defines no such method
register_default(br, command) == [err |-> "AttributeError", branches |-> br]

\* DispatcherBase.__init__(branch, *tokens): [err, target]
DispatcherBase_init(br, branch, tokens) ==
    IF ~br.has THEN [err |-> "AttributeError", target |-> None]
    ELSE IF DOMAIN br.map = {} THEN [err |-> "EmptyDispatchError", target |-> None]
    ELSE IF branch \notin DOMAIN br.map THEN [err |-> "KeyError", target |-> None]
    ELSE LET klass == br.map[branch]
             parsed == IF klass \in ModularClasses
                       THEN parse_arguments(klass, tokens)
                       ELSE [err |-> "none", values |-> tokens]
         IN  IF parsed.err # "none" THEN [err |-> parsed.err, target |-> None]
             ELSE [err |-> "none", target |-> [klass |-> klass, args |-> parsed.values]]

\* the constructor of a dispatcher subclass, as DriveDispatcher writes it:
\* the register_target calls, register_default when it has a default, then
\* super().__init__(*args)
DriveDispatcher_init(keys, default, args) ==
    IF default /\ register_default(Registered(keys), DefaultTarget).err # "none"
    THEN [err |-> register_default(Registered(keys), DefaultTarget).err,
          target |-> None]
    ELSE IF Len(args) = 0 THEN [err |-> "TypeError", target |-> None]
    ELSE DispatcherBase_init(Registered(keys), Head(args), Tail(args))

\* no dispatcher constructed yet
NoDispatcher ==
    [made |-> FALSE, keys |-> {}, default |-> FALSE, args |-> <<>>,
     err |-> "none", target |-> None]

-----------------------------------------------------------------------------
(* Initial state: InterpretCommand.__init__, as replaced by conditions/boolean.py *)

NoHistory(n) ==
    [built |-> [i \in 1..n |-> 0], jitRun |-> TRUE, accepted |-> FALSE,
     ended |-> FALSE]

\* the steps built are observed only while the JIT flag has stayed set
Unobserved(h) ==
    [NoHistory(Len(h.built)) EXCEPT !.jitRun = FALSE, !.accepted = h.accepted,
                                    !.ended = h.ended]

\* lastOp records load_program, compile, execute, end and reset; after any
\* other call it is Quiet
Op(name, err, events, arg) ==
    [op |-> name, err |-> err, events |-> events, arg |-> arg]

Quiet == Op("other", "none", <<>>, FALSE)

Init ==
    /\ instruction_set = [k \in {} |-> "InstantCommand"]
    /\ condition_set = [k \in {"true", "false"} |->
                           IF k = "true" THEN "TrueCondition" ELSE "FalseCondition"]
    /\ instructions = <<>>
    /\ jit_compiled = TRUE
    /\ command_sequence = <<>>
    /\ current_command = None
    /\ step = -1
    /\ scheduled = FALSE
    /\ elapsed = FALSE
    /\ lastOp = Quiet
    /\ hist = NoHistory(0)
    /\ dispatcher = NoDispatcher

-----------------------------------------------------------------------------
(* Operations *)

\* register(keyword, command): the registry it leaves
register(iset, keyword, command) ==
    [x \in DOMAIN iset \cup {keyword} |-> IF x = keyword THEN command ELSE iset[x]]

\* register_condition(keyword, condition, getter): the registry it leaves
register_condition(cset, keyword, condition) ==
    [x \in DOMAIN cset \cup {keyword} |-> IF x = keyword THEN condition ELSE cset[x]]

\* robotInit of the host: the registration calls, made once at startup
robotInit ==
    /\ DOMAIN instruction_set = {}
    /\ instruction_set' =
           register(register(instruction_set, "time", CommandWiring["time"]),
                    "wait", CommandWiring["wait"])
    /\ condition_set' = register_condition(condition_set, "angle",
                                           ConditionWiring["angle"])
    /\ lastOp' = Quiet
    /\ UNCHANGED <<dispatcher, instructions, jit_compiled, step, current_command,
                   command_sequence, scheduled, elapsed, hist>>

\* load_program(instructions, compile, jit).  kind is the type of the
\* argument (or of what the callable returns): "str", "list", or "other".
LoadProgram(kind, prog, comp, jit) ==
    IF LoadRefused(scheduled)
    THEN /\ lastOp' = Op("load", "ExecutionError", <<>>,
                         comp)
         /\ UNCHANGED <<dispatcher, instruction_set, condition_set, instructions, jit_compiled,
                        step, current_command, command_sequence, scheduled, elapsed,
                        hist>>
    ELSE IF kind = "other"
    THEN /\ lastOp' = Op("load", "ValueError", <<>>,
                         comp)
         /\ UNCHANGED <<dispatcher, instruction_set, condition_set, instructions, jit_compiled,
                        step, current_command, command_sequence, scheduled, elapsed,
                        hist>>
    ELSE
    LET insts1 == IF kind = "str" THEN SplitProgram(prog) ELSE prog
        e == FirstError(instruction_set, insts1)
        c == compile(command_sequence, insts1)
        err == IF e # "none" THEN e ELSE IF comp THEN c.err ELSE "none"
    IN  /\ instructions' = insts1
        /\ command_sequence' =
               IF e = "none" /\ comp THEN c.command_sequence ELSE command_sequence
        /\ jit_compiled' = IF err = "none" THEN jit ELSE jit_compiled
        /\ lastOp' = Op("load", err, <<>>, comp)
        /\ hist' = [NoHistory(Len(insts1)) EXCEPT
                        !.jitRun = IF err = "none" THEN jit ELSE jit_compiled,
                        !.accepted = err = "none"]
        /\ UNCHANGED <<dispatcher, instruction_set, condition_set, step, current_command,
                       scheduled, elapsed>>

\* enable_jit_compiler(enable)
EnableJit(enable) ==
    /\ jit_compiled' = enable
    /\ lastOp' = Quiet
    /\ hist' = IF hist.jitRun /\ enable THEN hist ELSE Unobserved(hist)
    /\ UNCHANGED <<dispatcher, instruction_set, condition_set, instructions, step,
                   current_command, command_sequence, scheduled, elapsed>>

\* compile(), called by the host
Compile ==
    LET c == compile(command_sequence, instructions)
    IN  /\ command_sequence' = c.command_sequence
        /\ lastOp' = Op("compile", c.err, <<>>, FALSE)
        /\ hist' = Unobserved(hist)
        /\ UNCHANGED <<dispatcher, instruction_set, condition_set, instructions, jit_compiled,
                       step, current_command, scheduled, elapsed>>

\* the host scheduler schedules the engine: initialize() does nothing
Schedule ==
    /\ ~scheduled
    /\ scheduled' = TRUE
    /\ lastOp' = Quiet
    /\ UNCHANGED <<dispatcher, instruction_set, condition_set, instructions, jit_compiled, step,
                   current_command, command_sequence, elapsed, hist>>

\* the timer of the current DriveTimeCommand reaches its duration between frames
TimerElapses ==
    /\ scheduled
    /\ current_command # None
    /\ current_command.command.klass = "DriveTimeCommand"
    /\ ~elapsed
    /\ elapsed' = TRUE
    /\ lastOp' = Quiet
    /\ UNCHANGED <<dispatcher, instruction_set, condition_set, instructions, jit_compiled, step,
                   current_command, command_sequence, scheduled, hist>>

\* the first half of execute(): the search for the next step when there is
\* no current step or the current one is finished, else nothing
AdvanceFromStart(st, env, advance) ==
    IF advance
    THEN Search([st EXCEPT !.step = 0, !.outcome = "search"], env)
    ELSE st

AdvanceOnlyFromIdle(st, env, advance) ==
    IF advance /\ st.cmd = None
    THEN Search([st EXCEPT !.step = @ + 1, !.outcome = "search"], env)
    ELSE st

AdvanceWhileConditionHolds(st, env, advance) ==
    IF \/ advance
       \/ /\ st.cmd # None
          /\ hasCondition(st.cmd)
          /\ st.cmd.condition.type = "continuous"
          /\ ~_result(st.cmd.condition, env.angle).res
    THEN Search([st EXCEPT !.step = @ + 1, !.outcome = "search"], env)
    ELSE st

Advance(st, env, advance) ==
    IF advance
    THEN Search([st EXCEPT !.step = @ + 1, !.outcome = "search"], env)
    ELSE st

\* the current step runs in this tick
RunsAgain(r) ==
    \/ r.outcome \in {"adopt", "continue"}
    \/ r.outcome = "finished" /\ r.cmd # None

Runs(r) == r.outcome \in {"adopt", "continue"}

\* the timer of the step that runs: command.initialize() of a
\* DriveTimeCommand resets it, and it may run out during the tick
TimerAfter(r, el, timerRuns) ==
    IF Runs(r)
    THEN /\ r.cmd.command.klass = "DriveTimeCommand"
         /\ (r.outcome # "adopt" /\ el) \/ timerRuns
    ELSE el

\* the hook calls of the second half of execute()
HooksWithoutEnd(r, finished) ==
    (IF r.outcome = "adopt" THEN <<Ev("init", r.step, r.cmd.id)>> ELSE <<>>)
    \o (IF Runs(r) THEN <<Ev("exec", r.step, r.cmd.id)>> ELSE <<>>)

Hooks(r, finished) ==
    (IF r.outcome = "adopt" THEN <<Ev("init", r.step, r.cmd.id)>> ELSE <<>>)
    \o (IF Runs(r) THEN <<Ev("exec", r.step, r.cmd.id)>> ELSE <<>>)
    \o (IF Runs(r) /\ finished THEN <<Ev("end", r.step, r.cmd.id)>> ELSE <<>>)

\* what a tick that left the loop in r does to the engine
Ticked(r, el1) ==
    /\ step' = r.step
    /\ command_sequence' = r.cache
    /\ current_command' = IF Runs(r) THEN r.cmd ELSE current_command
    /\ elapsed' = el1
    \* observation: end(False) has been called on the current step
    /\ hist' = [r.hist EXCEPT
                    !.ended = IF Runs(r) THEN CommandIsFinished(r.cmd, el1) ELSE @]
    /\ lastOp' = Op("execute", r.err,
                    r.events \o Hooks(r, Runs(r) /\ CommandIsFinished(r.cmd, el1)),
                    FALSE)

TickedWith(r, timerRuns) == Ticked(r, TimerAfter(r, elapsed, timerRuns))

\* how the first half of execute() leaves the loop in the current state
Searched(angle) ==
    Advance([step |-> step, cache |-> command_sequence,
             events |-> <<>>, hist |-> hist, outcome |-> "continue",
             err |-> "none", cmd |-> current_command],
            [iset |-> instruction_set, cset |-> condition_set,
             insts |-> instructions, jit |-> jit_compiled,
             cur |-> current_command, angle |-> angle],
            current_command = None \/ CommandIsFinished(current_command, elapsed))

\* execute(), one tick.  angle is what the angle getter returns when a
\* condition is tested; timerRuns says the timer of the current command
\* reaches its duration during this tick.
Execute(angle, timerRuns) ==
    /\ scheduled
    /\ step < MaxStep
    /\ TickedWith(Searched(angle), timerRuns)
    /\ UNCHANGED <<dispatcher, instruction_set, condition_set, instructions, jit_compiled,
                   scheduled>>

\* if interrupted and self.current_command != None:
\*     self.current_command.command.cancel()
CancelledAlways(interrupted, cur, s) ==
    IF cur # None THEN <<Ev("cancel", s, cur.id)>> ELSE <<>>

Cancelled(interrupted, cur, s) ==
    IF interrupted /\ cur # None THEN <<Ev("cancel", s, cur.id)>> ELSE <<>>

\* end(interrupted), called by the host scheduler: with False once
\* isFinished() holds after a tick, with True when the engine is cancelled
End(interrupted) ==
    /\ scheduled
    /\ interrupted \/ isFinished(step, command_sequence, instructions)
    /\ current_command' = None
    /\ step' = -1
    /\ scheduled' = FALSE
    /\ elapsed' = FALSE
    /\ lastOp' = Op("end", "none", Cancelled(interrupted, current_command, step),
                    interrupted)
    /\ hist' = [hist EXCEPT !.ended = FALSE]
    /\ UNCHANGED <<dispatcher, instruction_set, condition_set, instructions, jit_compiled,
                   command_sequence>>

ResetClearingCache ==
    /\ current_command' = None
    /\ command_sequence' = <<>>
    /\ step' = -1
    /\ scheduled' = FALSE
    /\ elapsed' = FALSE
    /\ lastOp' = Op("reset", "none", Cancelled(scheduled, current_command, step),
                    FALSE)
    /\ hist' = [hist EXCEPT !.ended = FALSE]
    /\ UNCHANGED <<dispatcher, instruction_set, condition_set, instructions, jit_compiled>>

\* reset(), called by the host: a scheduled engine is cancelled, which runs
\* end(True)
Reset ==
    /\ current_command' = None
    /\ step' = -1
    /\ scheduled' = FALSE
    /\ elapsed' = FALSE
    /\ lastOp' = Op("reset", "none", Cancelled(scheduled, current_command, step),
                    FALSE)
    /\ hist' = [hist EXCEPT !.ended = FALSE]
    /\ UNCHANGED <<dispatcher, instruction_set, condition_set, instructions, jit_compiled,
                   command_sequence>>

\* What the host passes to load_program.  A scheduled engine refuses before
\* it looks at its arguments, so the host's attempts on a running engine are
\* represented by the one-instruction programs, without precompilation.
Offered(progs) == IF scheduled THEN { p \in progs : Len(p) = 1 } ELSE progs

Flags == IF scheduled THEN {FALSE} ELSE BOOLEAN

Load ==
    \/ \E prog \in Offered(Programs) : \E comp \in Flags : \E jit \in BOOLEAN :
           LoadProgram("list", prog, comp, jit)
    \/ \E prog \in Offered(RawPrograms) : \E comp \in Flags :
           \E jit \in BOOLEAN : LoadProgram("str", prog, comp, jit)
    \/ LoadProgram("other", <<>>, FALSE, TRUE)

Tick ==
    \E angle \in AngleValues : \E timerRuns \in BOOLEAN :
        Execute(angle, timerRuns)

Other ==
    \/ robotInit
    \/ \E enable \in BOOLEAN : EnableJit(enable)
    \/ Compile
    \/ Schedule
    \/ TimerElapses
    \/ Tick
    \/ \E interrupted \in BOOLEAN : End(interrupted)
    \/ Reset

\* The host loads programs into an engine whose cache is empty (or tries to
\* while the engine runs).
LoadFresh ==
    /\ scheduled \/ command_sequence = <<>>
    /\ Load

Next ==
    \/ LoadFresh
    \/ Other

Spec == Init /\ [][Next]_vars

\* The host also reloads, with a program of one instruction or none, over
\* whatever cache the last program left.
LoadOver ==
    /\ ~scheduled
    /\ command_sequence # <<>>
    /\ \E prog \in { p \in Programs : Len(p) <= 1 } : \E comp \in BOOLEAN :
           \E jit \in BOOLEAN : LoadProgram("list", prog, comp, jit)

NextReload ==
    \/ LoadFresh
    \/ LoadOver
    \/ Other

SpecReload == Init /\ [][NextReload]_vars

\* A host that only runs programs: it wires the registries, loads a program
\* into the idle engine, schedules it, and its scheduler ends a run that
\* reports isFinished().
LoadIdle ==
    /\ ~scheduled
    /\ command_sequence = <<>>
    /\ Load

NextRun ==
    \/ robotInit
    \/ LoadIdle
    \/ Schedule
    \/ TimerElapses
    \/ Tick
    \/ End(FALSE)

\* a frame of the scheduler is due: Tick can be taken
FrameDue == scheduled /\ step < MaxStep

\* Weak fairness of Tick, written out.  Tick is the one action that records
\* "execute", and it is enabled, as a step that changes the state, exactly
\* when a frame is due (TickMakesProgress below).
FairTicks ==
    \/ []<>(~FrameDue)
    \/ []<><<lastOp'.op = "execute">>_vars

\* The host scheduler calls execute() in every frame while the engine is
\* scheduled, and the timer of a timed command reaches its duration.
SpecLive == Init /\ [][NextRun]_vars /\ FairTicks /\ WF_vars(TimerElapses)

\* The instruction compiler constructs a dispatcher subclass with the
\* subsystem and the instruction's tokens: the branch word, then the rest.
NewDispatcher(keys, default, args) ==
    /\ dispatcher' = [made |-> TRUE, keys |-> keys, default |-> default,
                      args |-> args,
                      err |-> DriveDispatcher_init(keys, default, args).err,
                      target |-> DriveDispatcher_init(keys, default, args).target]
    /\ UNCHANGED <<instruction_set, condition_set, instructions, jit_compiled, step,
                   current_command, command_sequence, scheduled, elapsed, lastOp,
                   hist>>

\* the words an instruction puts after the dispatcher's keyword
DispatchArgs ==
    {<<>>} \cup
    { <<branch>> \o tokens :
        branch \in {"forward", "reverse", "left", "5"},
        tokens \in { <<>>, <<"2">>, <<"2", "seconds">>, <<"for", "2", "seconds">>,
                     <<"for", "x", "seconds">> } }

NextDispatch ==
    \E keys \in SUBSET DOMAIN DispatchTargets : \E default \in BOOLEAN :
        \E args \in DispatchArgs : NewDispatcher(keys, default, args)

SpecDispatch == Init /\ [][NextDispatch]_vars

-----------------------------------------------------------------------------
(* Properties *)

\* the exceptions of check_instruction
ValidationErrors == {"InstructionNotFoundError", "CommandSyntaxError"}

\* the command keyword of an instruction
Keyword(inst) ==
    Head(IF Modifier(inst) = "none" THEN inst ELSE SplitBefore(inst, Modifier(inst)))

\* the loaded program went through validation in the last call, a load
Validated == lastOp.op = "load" /\ lastOp.err \notin {"ExecutionError", "ValueError"}

\* every instruction of the loaded program validates
ValidProgram == FirstError(instruction_set, instructions) = "none"

\* the events of the last call whose name is in names
EventsOf(names) == { k \in DOMAIN lastOp.events : lastOp.events[k].ev \in names }

\* C1: a load_program call that raises because an instruction fails validation
\* leaves the instruction list, the cache, the JIT flag, the cursor and the
\* current step as they were before the call.
C1_RejectedLoadMutatesNothing ==
    [][(lastOp'.op = "load" /\ lastOp'.err \in ValidationErrors)
           => UNCHANGED engine]_vars

\* C2: with the registries wired before the load, no tick on a program that
\* load_program accepted raises.
C2_AcceptedIsCompileClean ==
    (hist.accepted /\ lastOp.op = "execute") => lastOp.err = "none"

\* C3: for a program holding an instruction whose keyword is not registered,
\* load_program raises InstructionNotFoundError, and no tick constructs,
\* initializes or executes a command of that program.
C3_UnregisteredNeverRuns ==
    (\E i \in DOMAIN instructions : Keyword(instructions[i]) \notin DOMAIN instruction_set)
        => /\ Validated => lastOp.err = "InstructionNotFoundError"
           /\ lastOp.op = "execute"
                  => /\ EventsOf({"init", "exec"}) = {}
                     /\ \A k \in EventsOf({"compile"}) : lastOp.events[k].id = 0

\* C4: load_program of a program whose every instruction validates, whatever
\* the precompile and JIT flags, does not raise and leaves the engine idle: the
\* cursor is -1 and there is no current step.
C4_ValidProgramLoads ==
    (Validated /\ ValidProgram)
        => lastOp.err = "none" /\ step = -1 /\ current_command = None

\* C5: load_program on a scheduled engine raises ExecutionError and leaves the
\* instruction list, the cache, the JIT flag, the cursor and the current step
\* unchanged; the engine stays scheduled and its current command's timer runs on.
C5_LoadWhileRunningRefused ==
    [][(scheduled /\ lastOp'.op = "load")
           => /\ lastOp'.err = "ExecutionError"
              /\ UNCHANGED <<engine, scheduled, elapsed>>]_vars

\* C5 witness: a load was refused in the middle of a run, with a current step
C5_Witness ==
    /\ lastOp.op = "load" /\ lastOp.err = "ExecutionError"
    /\ scheduled /\ step >= 0 /\ current_command # None
    /\ ~isFinished(step, command_sequence, instructions)

\* C6: after load_program with precompile set on a valid program of n
\* instructions the cache holds n compiled steps, the i-th built from
\* instruction i.
C6_PrecompileFillsCache ==
    (Validated /\ ValidProgram /\ lastOp.arg)
        => /\ Len(command_sequence) = Len(instructions)
           /\ \A i \in DOMAIN command_sequence :
                  LET c == _compile_instruction(instruction_set, condition_set,
                                                instructions[i])
                  IN  /\ command_sequence[i].command = c.command
                      /\ command_sequence[i].condition = c.condition

\* C7: while the JIT flag has stayed set since load_program accepted the
\* program, the compiled step of each instruction index has been constructed
\* at most once.
C7_BuiltAtMostOnce ==
    (hist.jitRun /\ hist.accepted) => \A i \in DOMAIN hist.built : hist.built[i] <= 1

\* the engine reports Finished
Finished == step >= Len(instructions)

\* C8 as stated: a tick of a Finished engine compiles, initializes, executes
\* and finalizes nothing, changes neither the cursor, the current step nor the
\* cache, and leaves the engine Finished.
C8_FinishedTickChangesNothing ==
    [][(Finished /\ lastOp'.op = "execute")
           => /\ lastOp'.err = "none" /\ lastOp'.events = <<>>
              /\ UNCHANGED <<step, current_command, command_sequence>>
              /\ isFinished(step', command_sequence', instructions')]_vars

\* C8 amended: a tick of a Finished engine compiles, initializes, executes and
\* finalizes nothing, changes neither the current step nor the cache, and
\* leaves the engine Finished; the cursor moves on by one with each such tick.
C8_FinishedTickOnlyMovesCursor ==
    [][(Finished /\ lastOp'.op = "execute")
           => /\ lastOp'.err = "none" /\ lastOp'.events = <<>>
              /\ UNCHANGED <<current_command, command_sequence>>
              /\ step' = step + 1
              /\ isFinished(step', command_sequence', instructions')]_vars

\* C8 witness: a tick was made on an engine that had already found the end of
\* a program whose last command it still holds
C8_Witness ==
    /\ lastOp.op = "execute" /\ lastOp.events = <<>>
    /\ Len(instructions) > 0 /\ step > Len(instructions)
    /\ current_command # None

\* C9: a tick on an accepted program that skips instruction i calls no hook of
\* its command and, when an instruction without a condition follows, adopts in
\* that same tick an instruction after i, no later than the first one without
\* a condition.
C9_SkipAdoptsNext ==
    (hist.accepted /\ lastOp.op = "execute") =>
        \A k \in EventsOf({"skip"}) :
            LET i == lastOp.events[k].idx
                plain == { j \in (i + 1)..(Len(instructions) - 1) :
                               Modifier(instructions[j + 1]) = "none" }
            IN  /\ \A n \in EventsOf(HookEvents) : lastOp.events[n].idx # i
                /\ plain # {} =>
                       \E n \in EventsOf({"adopt"}) :
                           /\ lastOp.events[n].idx > i
                           /\ \A j \in plain : lastOp.events[n].idx <= j

ModifierKeywords == {"if", "unless", "while", "until"}

\* the modifier keywords inst holds
KeywordsIn(inst) == { kw \in ModifierKeywords : HasKeyword(inst, kw) }

\* inst with its modifier keyword replaced by kw
WithModifier(inst, kw) ==
    SplitBefore(inst, Modifier(inst)) \o <<kw>> \o SplitAfter(inst, Modifier(inst))

\* the compiled step of inst under the modifier kw
StepWith(inst, kw) ==
    _compile_instruction(instruction_set, condition_set, WithModifier(inst, kw))

\* C10: for every loaded instruction with one modifier whose condition compiles,
\* and every reading of the sensor for which the test returns: the step
\* compiled with `unless` is satisfied exactly when the one with `if` is not,
\* `until` likewise against `while`, and under each modifier the result is the
\* test's result XOR the invert flag, set for `unless` and `until` only.
C10_InversionIsXor ==
    \A i \in DOMAIN instructions : \A angle \in AngleValues :
        (Cardinality(KeywordsIn(instructions[i])) = 1
            /\ StepWith(instructions[i], "if").err = "none"
            /\ Satisfied(StepWith(instructions[i], "if"), angle).err = "none")
        => /\ Satisfied(StepWith(instructions[i], "unless"), angle).res
                  = ~Satisfied(StepWith(instructions[i], "if"), angle).res
           /\ Satisfied(StepWith(instructions[i], "until"), angle).res
                  = ~Satisfied(StepWith(instructions[i], "while"), angle).res
           /\ \A kw \in {"if", "unless", "while", "until"} :
                  LET cond == StepWith(instructions[i], kw).condition
                  IN  /\ cond.invert = (kw \in {"unless", "until"})
                      /\ _result(cond, angle).res
                             = (test(cond.klass, angle, cond.tokens).res # cond.invert)

\* C10 witness: a tick tested an inverted condition and adopted its step
C10_Witness ==
    /\ lastOp.op = "execute" /\ EventsOf({"adopt"}) # {}
    /\ current_command # None
    /\ hasCondition(current_command)
    /\ current_command.condition.invert

Range(f) == { f[k] : k \in DOMAIN f }

\* the names of the hook calls of the call op, in order
HookNames(op) ==
    LET h == SelectSeq(op.events, LAMBDA e : e.ev \in HookEvents)
    IN  [k \in DOMAIN h |-> h[k].ev]

\* this step is the first tick of a run on a one-instruction program, and it
\* adopts a command that reports completion at once
SingleTick ==
    /\ lastOp'.op = "execute" /\ lastOp'.err = "none"
    /\ Len(instructions) = 1 /\ step = -1
    /\ current_command' # None
    /\ current_command'.command.klass = "InstantCommand"

\* C11 as stated: the first tick on a one-instruction program whose command
\* reports completion at once initializes, executes and finalizes the command,
\* and isFinished() is true after it.
C11_SingleTickCompletes ==
    [][SingleTick
           => /\ HookNames(lastOp') = <<"init", "exec", "end">>
              /\ isFinished(step', command_sequence', instructions')]_vars

\* C11 amended: that first tick initializes, executes and finalizes the
\* command but leaves isFinished() false, with the cursor on the instruction;
\* the tick after it calls no hook and makes isFinished() true.
C11_SecondTickCompletes ==
    [][/\ SingleTick
           => /\ HookNames(lastOp') = <<"init", "exec", "end">>
              /\ step' = 0
              /\ ~isFinished(step', command_sequence', instructions')
       /\ (/\ lastOp'.op = "execute" /\ Len(instructions) = 1 /\ step = 0
           /\ current_command # None
           /\ current_command.command.klass = "InstantCommand")
           => /\ lastOp'.events = <<>>
              /\ isFinished(step', command_sequence', instructions')]_vars

\* C11 witness: the second tick of such a run has just found the end
C11_Witness ==
    /\ lastOp.op = "execute" /\ lastOp.events = <<>>
    /\ Len(instructions) = 1 /\ step = 1
    /\ current_command # None
    /\ current_command.command.klass = "InstantCommand"

\* the dispatcher was constructed from a branch word and tokens
Dispatched == dispatcher.made /\ Len(dispatcher.args) > 0

\* the command of class klass built from tokens
TargetOf(klass, tokens) == [klass |-> klass, args |-> parse_arguments(klass, tokens).values]

\* C12: a dispatcher whose first token is a registered branch builds that
\* branch's class from the remaining tokens; one whose first token is no
\* branch builds the default class from all the tokens when it has a default,
\* and fails with InstructionNotFoundError when it has none.  (Tokens the
\* class cannot parse are left aside.)
C12_BranchOrDefault ==
    Dispatched =>
        LET branch == Head(dispatcher.args)
            tokens == Tail(dispatcher.args)
        IN  /\ (/\ branch \in dispatcher.keys
                /\ parse_arguments(DispatchTargets[branch], tokens).err = "none")
                => /\ dispatcher.err = "none"
                   /\ dispatcher.target = TargetOf(DispatchTargets[branch], tokens)
            /\ (/\ branch \notin dispatcher.keys /\ dispatcher.default
                /\ parse_arguments(DefaultTarget, dispatcher.args).err = "none")
                => /\ dispatcher.err = "none"
                   /\ dispatcher.target = TargetOf(DefaultTarget, dispatcher.args)
            /\ (/\ branch \notin dispatcher.keys /\ ~dispatcher.default
                /\ dispatcher.keys # {})
                => dispatcher.err = "InstructionNotFoundError"

\* C13: constructing a dispatcher for which register_target was never called
\* fails with EmptyDispatchError and constructs no nested command.
C13_NoBranchesIsEmptyDispatch ==
    (Dispatched /\ dispatcher.keys = {} /\ ~dispatcher.default)
        => dispatcher.err = "EmptyDispatchError" /\ dispatcher.target = None

\* the one that occurs earliest
EarliestKeyword(inst) ==
    CHOOSE kw \in KeywordsIn(inst) :
        \A other \in KeywordsIn(inst) : KeywordPos(inst, kw) <= KeywordPos(inst, other)

\* C14: a loaded instruction holding more than one modifier keyword is split,
\* by validation and by compilation, at the keyword that occurs earliest: the
\* command is built from the words before it, and the condition from the
\* words after it, inverted exactly for `unless` and `until` and continuous
\* exactly for `while` and `until`.
C14_SplitAtEarliestKeyword ==
    \A i \in DOMAIN instructions :
        Cardinality(KeywordsIn(instructions[i])) > 1 =>
            LET inst == instructions[i]
                kw == EarliestKeyword(inst)
                c == _compile_instruction(instruction_set, condition_set, inst)
            IN  /\ Modifier(inst) = kw
                /\ c.err = "none" =>
                       /\ c.command.args = Tail(SplitBefore(inst, kw))
                       /\ c.condition.tokens = Tail(SplitAfter(inst, kw))
                       /\ c.condition.invert = (kw \in {"unless", "until"})
                       /\ c.condition.type =
                              (IF kw \in {"while", "until"} THEN "continuous"
                               ELSE "initial")

\* cmd is what compiling inst gives
CompilationOf(cmd, inst) ==
    LET c == _compile_instruction(instruction_set, condition_set, inst)
    IN  c.err = "none" /\ cmd.command = c.command /\ cmd.condition = c.condition

\* C15: after a successful load_program the cache holds no step of the program
\* loaded before: whatever it holds at index i is a compilation of instruction
\* i of the new program, so that is what the following run adopts there.
C15_ReloadDiscardsCache ==
    (lastOp.op = "load" /\ lastOp.err = "none")
        => \A i \in DOMAIN command_sequence :
               /\ i <= Len(instructions)
               /\ CompilationOf(command_sequence[i], instructions[i])

\* C16: after a tick that raised the engine is idle: the cursor is -1 and there
\* is no current step.
C16_ErrorReturnsToIdle ==
    (hist.accepted /\ lastOp.op = "execute" /\ lastOp.err # "none")
        => step = -1 /\ current_command = None

\* the hook calls a tick may make, in order
HookOrders ==
    { <<>>, <<"init", "exec">>, <<"init", "exec", "end">>, <<"exec">>,
      <<"exec", "end">> }

\* the parts of C17 about initialize and execute: a tick calls initialize
\* exactly when it adopts a step, once and before execute; a step that is
\* current and not finished when a tick starts is executed once in that tick,
\* and no other step is; end(False) is called exactly when the command reports
\* completion after the execute of the tick, so never before a later execute.
HooksInOrder ==
    [][lastOp'.op = "execute"
           => /\ HookNames(lastOp') \in HookOrders
              /\ \A k \in DOMAIN lastOp'.events :
                     lastOp'.events[k].ev \in HookEvents
                         => lastOp'.events[k].id = current_command'.id
              /\ ("init" \in Range(HookNames(lastOp')))
                     = (\E k \in DOMAIN lastOp'.events : lastOp'.events[k].ev = "adopt")
              /\ (current_command # None /\ ~CommandIsFinished(current_command, elapsed))
                     => /\ HookNames(lastOp') \in {<<"exec">>, <<"exec", "end">>}
                        /\ current_command' = current_command
              /\ ("end" \in Range(HookNames(lastOp')))
                     = (/\ "exec" \in Range(HookNames(lastOp'))
                        /\ CommandIsFinished(current_command', elapsed'))]_vars

\* C17: on an accepted program the hooks of an adopted step come in order (initialize once at
\* adoption, execute in every tick while it is current and not finished), and
\* a step that reports completion when a tick starts has had its end(False).
C17_HookOrder ==
    [][(hist.accepted /\ lastOp'.op = "execute")
           => /\ HookNames(lastOp') \in HookOrders
              /\ ("init" \in Range(HookNames(lastOp')))
                     = (\E k \in DOMAIN lastOp'.events : lastOp'.events[k].ev = "adopt")
              /\ (current_command # None /\ ~CommandIsFinished(current_command, elapsed))
                     => HookNames(lastOp') \in {<<"exec">>, <<"exec", "end">>}
              /\ (current_command # None /\ CommandIsFinished(current_command, elapsed))
                     => hist.ended]_vars

C19_ResetFrame ==
    [][lastOp'.op = "reset"
           => /\ current_command' = None /\ step' = -1
              /\ UNCHANGED <<command_sequence, instructions, jit_compiled,
                             instruction_set, condition_set>>]_vars

\* C19 witness: reset() was called in the middle of a run that had cached steps
C19_Witness ==
    /\ lastOp.op = "reset" /\ lastOp.events # <<>>
    /\ command_sequence # <<>> /\ instructions # <<>>
    /\ current_command = None /\ step = -1

\* C20: the cursor never decreases except in end and reset, which set it to -1.
C20_CursorMonotone ==
    [][\/ step' >= step
       \/ lastOp'.op \in {"end", "reset"} /\ step' = -1]_vars

\* C20 witness: a tick has moved the cursor on past a skipped instruction
C20_Witness ==
    /\ lastOp.op = "execute" /\ EventsOf({"skip"}) # {}
    /\ step >= 1 /\ scheduled

\* C21: in every reachable state, whatever calls of load_program, compile,
\* enable_jit_compiler, execute, end and reset came before, the cache holds at
\* most as many compiled steps as there are loaded instructions.
C21_CacheWithinProgram == Len(command_sequence) <= Len(instructions)

\* C22: whatever its mode, the condition of a step is tested once in each
\* visit, right before the step is adopted or skipped and so before its
\* initialize; a tick that finds the current step unfinished tests nothing and
\* keeps the step, whatever its continuous condition would give now.
C22_ConditionTestedOncePerVisit ==
    [][lastOp'.op = "execute" =>
        LET ev == lastOp'.events
            tests == { k \in DOMAIN ev : ev[k].ev = "test" }
        IN  /\ \A k \in DOMAIN ev :
                   \/ ev[k].ev = "skip"
                   \/ ev[k].ev = "adopt" /\ hasCondition(current_command')
                   => /\ k - 1 \in tests
                      /\ ev[k - 1].idx = ev[k].idx /\ ev[k - 1].id = ev[k].id
            /\ \A k \in tests :
                   /\ k + 1 \in DOMAIN ev
                      => /\ ev[k + 1].ev \in {"skip", "adopt"}
                         /\ ev[k + 1].ev = "adopt" => hasCondition(current_command')
                   /\ \A n \in tests : ev[n].idx = ev[k].idx => n = k
                   /\ \A n \in DOMAIN ev : ev[n].ev \in HookEvents => k < n
            /\ (current_command # None /\ ~CommandIsFinished(current_command, elapsed))
                   => /\ tests = {}
                      /\ current_command' = current_command
                      /\ step' = step]_vars

\* C22 witness: a tick has just executed, without testing anything, a current
\* step whose continuous condition is false for a reading the sensor can give
C22_Witness ==
    /\ lastOp.op = "execute" /\ HookNames(lastOp) = <<"exec">>
    /\ EventsOf({"test"}) = {}
    /\ current_command # None
    /\ hasCondition(current_command)
    /\ current_command.condition.type = "continuous"
    /\ \E angle \in AngleValues : ~_result(current_command.condition, angle).res

\* inst holds a modifier keyword with nothing, or only blanks, after it
EmptyClause(inst) ==
    \E i \in 2..Len(inst) :
        /\ inst[i] \in ModifierKeywords
        /\ \A j \in (i + 1)..Len(inst) : inst[j] = ""

\* C23: an instruction with a modifier keyword and a missing or empty
\* condition clause is rejected with CommandSyntaxError: when load_program has
\* let it through, the tick that compiles it builds no step and raises
\* CommandSyntaxError, no other error.
C23_EmptyClauseIsSyntaxError ==
    (hist.accepted /\ lastOp.op = "execute")
        => \A k \in EventsOf({"compile"}) :
               EmptyClause(instructions[lastOp.events[k].idx + 1])
                   => lastOp.events[k].id = 0 /\ lastOp.err = "CommandSyntaxError"

\* C24: while one accepted program is loaded, whatever ticks, resets, ends and
\* JIT switches came before, the cache holds at every index i the compiled
\* step of instruction i.
C24_CacheAlignedWithProgram ==
    hist.accepted =>
        \A i \in DOMAIN command_sequence :
            /\ i <= Len(instructions)
            /\ CompilationOf(command_sequence[i], instructions[i])

\* the condition compiled from inst is false for a reading the sensor can give
ConditionCanFail(inst) ==
    LET c == _compile_instruction(instruction_set, condition_set, inst)
    IN  /\ Modifier(inst) # "none"
        /\ c.err = "none"
        /\ \E angle \in AngleValues : ~_result(c.condition, angle).res

\* C25: in a run of an accepted program each tick adopts only an index beyond
\* the cursor, so the adopted indices increase strictly; the indices a tick
\* moves the cursor over are skipped ones, and a skipped instruction has a
\* condition that can evaluate false; an instruction without a condition that
\* the cursor reaches is adopted.
C25_AdoptedInOrder ==
    [][(hist.accepted /\ lastOp'.op = "execute" /\ lastOp'.err = "none") =>
        LET ev == lastOp'.events
            adopted == { ev[k].idx : k \in { n \in DOMAIN ev : ev[n].ev = "adopt" } }
            skipped == { ev[k].idx : k \in { n \in DOMAIN ev : ev[n].ev = "skip" } }
            last == Len(instructions) - 1
        IN  /\ \A j \in adopted : j > step /\ j = step'
            /\ \A j \in skipped : ConditionCanFail(instructions[j + 1])
            /\ \A j \in (step + 1)..last :
                   /\ j < step' => j \in skipped
                   /\ (j <= step' /\ Modifier(instructions[j + 1]) = "none")
                          => j \in adopted]_vars

\* the last call was a tick that raised
Raised == lastOp.op = "execute" /\ lastOp.err # "none"

\* whenever a frame is due, a tick moves the cursor or lets the timer of the
\* current command run out: ticking never leaves the engine where it was
TickMakesProgress ==
    FrameDue =>
        \E angle \in AngleValues :
            \/ Searched(angle).step # step
            \/ TimerAfter(Searched(angle), elapsed, TRUE) # elapsed

\* C26: a scheduled engine that is ticked in every frame, whose timed commands
\* reach their durations, comes to isFinished(), unless a tick raises or the
\* host cancels the run first, whatever program is loaded; and no tick leaves
\* such an engine where it was.
C26_EventuallyFinished ==
    /\ []TickMakesProgress
    /\ scheduled ~> \/ isFinished(step, command_sequence, instructions)
                    \/ Raised
                    \/ ~scheduled

\* C26 witness: a run of a program whose every instruction was skipped has
\* come to its end without adopting anything
C26_Witness ==
    /\ hist.accepted /\ scheduled
    /\ Len(instructions) > 0
    /\ lastOp.op = "execute" /\ lastOp.err = "none"
    /\ EventsOf({"skip"}) # {} /\ EventsOf({"adopt"}) = {}
    /\ current_command = None
    /\ isFinished(step, command_sequence, instructions)

====
